---- MODULE Spec2Model ----
(***************************************************************************)
(* Model of the iced text editor in src/src/main.rs: the Editor state,     *)
(* Editor::update, and the three async commands pick_file, load_file and   *)
(* save_file, each run as a task whose result is fed back to update.       *)
(*                                                                         *)
(* text_editor::Content is the iced widget's buffer; it is modelled as a   *)
(* text (a sequence of characters) with a cursor.  The file dialogs and   *)
(* the filesystem are the environment: a dialog answers with a path or is  *)
(* cancelled, a read or a write succeeds or fails with an io::ErrorKind.   *)
(***************************************************************************)
EXTENDS Integers, Sequences, FiniteSets, TLC

\* ---------------------------------------------------------------- bounds
MaxMsgs == 2     \* user messages (Edit, Open, New, Save, NewTheme) in one run

\* ------------------------------------------------------------ vocabulary
Chars == {"a", "b"}

DefaultFile == "main.rs"
Paths == {DefaultFile, "/tmp/x.txt"}
None == "None"

ErrorKinds == {"NotFound", "PermissionDenied"}

\* enum Error { DialogClosed, IOFailed(io::ErrorKind) }, and Option<Error>
NoError == [tag |-> "None", kind |-> "-"]
DialogClosed == [tag |-> "DialogClosed", kind |-> "-"]
IOFailed(kind) == [tag |-> "IOFailed", kind |-> kind]
Errors == {DialogClosed} \cup {IOFailed(k) : k \in ErrorKinds}

\* highlighter::Theme; the initial one (dark) and a light one
SolarizedDark == "SolarizedDark"
Themes == {SolarizedDark, "InspiredGitHub"}

\* include_str!("main.rs"): the text the buffer starts with (not empty)
InitText == <<"a">>

\* ------------------------------------------------- text_editor::Content
ContentWith(t) == [text |-> t, cursor |-> 0]
ContentNew == ContentWith(<<>>)
ContentText(c) == c.text

\* text_editor::Action: Edit(Insert(c) | Backspace | Delete), Move(Left | Right)
EditActions == [tag : {"Edit"}, op : {"Insert"}, ch : Chars]
               \cup [tag : {"Edit"}, op : {"Backspace", "Delete"}, ch : {"-"}]
MoveActions == [tag : {"Move"}, op : {"Left", "Right"}, ch : {"-"}]
Actions == EditActions \cup MoveActions

\* Edit(Paste(text)) of the text "abc"
Abc == <<"a", "b", "c">>
PasteAbc == [tag |-> "Edit", op |-> "Paste", ch |-> "abc"]

is_edit(action) == action.tag = "Edit"

RemoveAt(s, i) == SubSeq(s, 1, i - 1) \o SubSeq(s, i + 1, Len(s))
InsertSeqAt(s, i, t) == SubSeq(s, 1, i) \o t \o SubSeq(s, i + 1, Len(s))
InsertAt(s, i, c) == SubSeq(s, 1, i) \o <<c>> \o SubSeq(s, i + 1, Len(s))

\* Content::edit
ContentEdit(c, action) ==
    CASE action.op = "Insert" ->
           [text |-> InsertAt(c.text, c.cursor, action.ch), cursor |-> c.cursor + 1]
      [] action.op = "Paste" ->
           [text |-> InsertSeqAt(c.text, c.cursor, Abc), cursor |-> c.cursor + Len(Abc)]
      [] action.op = "Backspace" ->
           IF c.cursor > 0
             THEN [text |-> RemoveAt(c.text, c.cursor), cursor |-> c.cursor - 1]
             ELSE c
      [] action.op = "Delete" ->
           IF c.cursor < Len(c.text)
             THEN [text |-> RemoveAt(c.text, c.cursor + 1), cursor |-> c.cursor]
             ELSE c
      [] action.op = "Left" ->
           [c EXCEPT !.cursor = IF c.cursor > 0 THEN c.cursor - 1 ELSE 0]
      [] action.op = "Right" ->
           [c EXCEPT !.cursor = IF c.cursor < Len(c.text) THEN c.cursor + 1 ELSE c.cursor]

\* --------------------------------------------------------------- results
NoResult == [tag |-> "None", path |-> None, text |-> <<>>, err |-> NoError]
Ok(p, t) == [tag |-> "Ok", path |-> p, text |-> t, err |-> NoError]
Err(e) == [tag |-> "Err", path |-> None, text |-> <<>>, err |-> e]

\* --------------------------------------------------------------- commands
NoCommand == [fut |-> "none", path |-> None, text |-> <<>>, wrap |-> "-"]
Perform(fut, p, t, wrap) == [fut |-> fut, path |-> p, text |-> t, wrap |-> wrap]

\* fn default_file
default_file == DefaultFile

\* Editor::update: the new state and the command returned
\* (variant: the open forgets to mark the buffer saved)
FileOpenedOkNoSaved(self, message) ==
    [self |-> [self EXCEPT !.path = message.res.path,
                           !.content = ContentWith(message.res.text)],
     command |-> NoCommand]
UpdateFileOpenedOk(self, message) ==
    [self |-> [self EXCEPT !.path = message.res.path,
                           !.content = ContentWith(message.res.text),
                           !.saved = TRUE],
     command |-> NoCommand]

\* (variant: an edit that leaves the error in place)
EditKeepsError(self, message) ==
    [self |-> [self EXCEPT !.content = ContentEdit(self.content, message.action),
                           !.saved = IF is_edit(message.action) THEN FALSE ELSE self.saved],
     command |-> NoCommand]
\* (variant: every action, a cursor move too, marks the buffer unsaved)
EditAlwaysDirties(self, message) ==
    [self |-> [self EXCEPT !.content = ContentEdit(self.content, message.action),
                           !.error = NoError,
                           !.saved = FALSE],
     command |-> NoCommand]
UpdateEdit(self, message) ==
    [self |-> [self EXCEPT !.content = ContentEdit(self.content, message.action),
                           !.error = NoError,
                           !.saved = IF is_edit(message.action) THEN FALSE ELSE self.saved],
     command |-> NoCommand]

\* (variant: a failed open asks for a file again)
FileOpenedErrRetries(self, message) ==
    [self |-> [self EXCEPT !.error = message.res.err],
     command |-> Perform("pick_file", None, <<>>, "FileOpened")]
UpdateFileOpenedErr(self, message) ==
    [self |-> [self EXCEPT !.error = message.res.err],
     command |-> NoCommand]

UpdateOpen(self, message) ==
    [self |-> self, command |-> Perform("pick_file", None, <<>>, "FileOpened")]

\* (variant: a new document also drops the error)
NewClearsError(self, message) ==
    [self |-> [self EXCEPT !.path = None,
                           !.content = ContentNew,
                           !.saved = FALSE,
                           !.error = NoError],
     command |-> NoCommand]
\* (variant: a new document keeps the path of the old one)
NewKeepsPath(self, message) ==
    [self |-> [self EXCEPT !.content = ContentNew,
                           !.saved = FALSE],
     command |-> NoCommand]
UpdateNew(self, message) ==
    [self |-> [self EXCEPT !.path = None,
                           !.content = ContentNew,
                           !.saved = FALSE],
     command |-> NoCommand]

\* (variant: a save without a path adopts the default file at once)
SaveAdoptsDefaultPath(self, message) ==
    [self |-> [self EXCEPT !.path = IF self.path = None THEN default_file ELSE self.path],
     command |-> Perform("save_file", self.path, ContentText(self.content), "FileSaved")]
UpdateSave(self, message) ==
    [self |-> self,
     command |-> Perform("save_file", self.path, ContentText(self.content), "FileSaved")]

\* (variant: a successful save-as does not take over the path written)
FileSavedOkKeepsPath(self, message) ==
    [self |-> [self EXCEPT !.saved = TRUE],
     command |-> NoCommand]
\* (variant: a save's result is dropped when the path has changed since)
FileSavedOkFenced(self, message) ==
    [self |-> IF self.path \in {None, message.res.path}
              THEN [self EXCEPT !.path = message.res.path, !.saved = TRUE]
              ELSE self,
     command |-> NoCommand]
UpdateFileSavedOk(self, message) ==
    [self |-> [self EXCEPT !.path = message.res.path, !.saved = TRUE],
     command |-> NoCommand]

\* (variant: a failed save also forgets the path)
FileSavedErrForgetsPath(self, message) ==
    [self |-> [self EXCEPT !.error = message.res.err, !.path = None],
     command |-> NoCommand]
UpdateFileSavedErr(self, message) ==
    [self |-> [self EXCEPT !.error = message.res.err],
     command |-> NoCommand]

\* (variant: choosing the theme already in use switches to the default theme)
NewThemeToggles(self, message) ==
    [self |-> [self EXCEPT !.theme = IF self.theme = message.theme
                                       THEN SolarizedDark ELSE message.theme],
     command |-> NoCommand]
UpdateNewTheme(self, message) ==
    [self |-> [self EXCEPT !.theme = message.theme], command |-> NoCommand]

update(self, message) ==
    CASE message.tag = "Edit" -> UpdateEdit(self, message)
      [] message.tag = "FileOpened" /\ message.res.tag = "Ok" ->
           UpdateFileOpenedOk(self, message)
      [] message.tag = "FileOpened" /\ message.res.tag = "Err" ->
           UpdateFileOpenedErr(self, message)
      [] message.tag = "Open" -> UpdateOpen(self, message)
      [] message.tag = "New" -> UpdateNew(self, message)
      [] message.tag = "Save" -> UpdateSave(self, message)
      [] message.tag = "FileSaved" /\ message.res.tag = "Ok" ->
           UpdateFileSavedOk(self, message)
      [] message.tag = "FileSaved" /\ message.res.tag = "Err" ->
           UpdateFileSavedErr(self, message)
      [] message.tag = "NewTheme" -> UpdateNewTheme(self, message)

\* Message constructors
Msg(tag) == [tag |-> tag]
MsgEdit(action) == [tag |-> "Edit", action |-> action]
MsgNewTheme(t) == [tag |-> "NewTheme", theme |-> t]
MsgResult(wrap, res) == [tag |-> wrap, res |-> res]

\* ------------------------------------------------------------------- view
\* error.to_string() of an io::ErrorKind
KindToString(kind) ==
    CASE kind = "NotFound" -> "entity not found"
      [] kind = "PermissionDenied" -> "permission denied"

\* the status text of Editor::view: the pieces pushed onto the string, in order
status(self) ==
    LET string == IF self.error.tag = "IOFailed"
                    THEN <<KindToString(self.error.kind)>>
                    ELSE IF self.path # None THEN <<self.path>> ELSE <<"New File">>
    IN IF ~self.saved THEN Append(string, " *") ELSE string

\* ------------------------------------------------------------------ state
VARIABLES content, error, path, saved, theme,   \* struct Editor
          tasks,        \* the commands scheduled so far, in order; a command whose
                        \* result was applied is kept as Retired
          fs,           \* the filesystem: a file per path, or none
          persisted,    \* history: text of the last load or save applied
          last,         \* history: the last message applied by update
          nmsgs         \* history: the number of user messages applied

editor == <<content, error, path, saved, theme>>
history == <<persisted, last, nmsgs>>
vars == <<content, error, path, saved, theme, tasks, fs, persisted, last, nmsgs>>

Self == [content |-> content, error |-> error, path |-> path,
         saved |-> saved, theme |-> theme]

NoFile == [exists |-> FALSE, text |-> <<>>]
File(t) == [exists |-> TRUE, text |-> t]

\* what the files hold when the program starts: the default file is read at
\* run time and may be absent, hold the text embedded at build time or another
\* text; so may any other file
OtherText == <<"a", "b">>
StartFiles ==
    [p \in Paths |-> IF p = DefaultFile
                       THEN {NoFile, File(InitText), File(OtherText)}
                       ELSE {NoFile, File(<<>>), File(<<"b">>)}]

\* no text of a run is longer: the longest one at the start, and what the
\* user messages of a run can add to it
MaxText == Len(OtherText) + MaxMsgs * Len(Abc)

\* the byte a hole in a file reads as
Nul == "NUL"

\* a write of chunk at offset off into a file holding cur: a hole before the
\* offset reads as NULs, what lies behind the chunk stays
WriteAt(cur, off, chunk) ==
    LET padded == IF Len(cur) < off
                    THEN cur \o [j \in 1..(off - Len(cur)) |-> Nul] ELSE cur
    IN SubSeq(padded, 1, off) \o chunk
         \o SubSeq(padded, off + Len(chunk) + 1, Len(padded))

\* (variant: a save without a path writes to the dialog's default name unasked)
SpawnSkipsDialog(command) ==
    [fut |-> command.fut, wrap |-> command.wrap,
     arg |-> command.path, text |-> command.text,
     pc |-> CASE command.fut = "pick_file" -> "dialog"
              [] command.fut = "load_file" -> "read"
              [] command.fut = "save_file" -> "write",
     asked |-> command.fut = "pick_file",
     target |-> IF command.fut = "save_file" /\ command.path = None
                  THEN "/tmp/x.txt" ELSE command.path,
     io |-> FALSE, off |-> 0, buf |-> <<>>, edited |-> FALSE, result |-> NoResult,
     delivered |-> 0]
\* Command::perform(future, wrap): the task at its first await
Spawn(command) ==
    [fut |-> command.fut, wrap |-> command.wrap,
     arg |-> command.path, text |-> command.text,
     pc |-> CASE command.fut = "pick_file" -> "dialog"
              [] command.fut = "load_file" -> "read"
              [] command.fut = "save_file" ->
                   IF command.path = None THEN "dialog" ELSE "write",
     asked |-> command.fut = "pick_file"
               \/ (command.fut = "save_file" /\ command.path = None),
     target |-> command.path,
     io |-> FALSE, off |-> 0, buf |-> <<>>, edited |-> FALSE, result |-> NoResult,
     delivered |-> 0]

\* a command whose result update has applied
Retired ==
    [fut |-> "-", wrap |-> "-", arg |-> None, text |-> <<>>, pc |-> "delivered",
     asked |-> FALSE, target |-> None, io |-> FALSE, off |-> 0, buf |-> <<>>,
     edited |-> FALSE,
     result |-> NoResult, delivered |-> 1]

InFlight == {i \in DOMAIN tasks : tasks[i].pc # "delivered"}

\* Editor::new
Init ==
    /\ path = None
    /\ content = ContentWith(InitText)
    /\ error = NoError
    /\ saved = TRUE
    /\ theme = SolarizedDark
    /\ tasks = <<Spawn(Perform("load_file", default_file, <<>>, "FileOpened"))>>
    /\ fs \in [Paths -> UNION {StartFiles[p] : p \in Paths}]
    /\ \A p \in Paths : fs[p] \in StartFiles[p]
    /\ persisted = InitText
    /\ last = "new"
    /\ nmsgs = 0

\* one call of Editor::update, the returned command handed to the runtime
Apply(message) ==
    LET r == update(Self, message) IN
    /\ content' = r.self.content
    /\ error' = r.self.error
    /\ path' = r.self.path
    /\ saved' = r.self.saved
    /\ theme' = r.self.theme
    /\ tasks' = IF r.command = NoCommand THEN tasks
                ELSE Append(tasks, Spawn(r.command))
    /\ last' = message.tag
    /\ nmsgs < MaxMsgs
    /\ nmsgs' = nmsgs + 1

\* ---------------------------------------------------------- user messages
Edit(action) ==
    /\ nmsgs < MaxMsgs
    /\ LET r == update(Self, MsgEdit(action)) IN
         /\ content' = r.self.content
         /\ error' = r.self.error
         /\ path' = r.self.path
         /\ saved' = r.self.saved
         /\ theme' = r.self.theme
         /\ tasks' = LET marked == [i \in DOMAIN tasks |->
                                     IF i \in InFlight /\ tasks[i].fut = "save_file"
                                        /\ is_edit(action)
                                       THEN [tasks[i] EXCEPT !.edited = TRUE]
                                       ELSE tasks[i]]
                     IN IF r.command = NoCommand THEN marked
                        ELSE Append(marked, Spawn(r.command))
    /\ last' = IF is_edit(action) THEN "Edit" ELSE "Move"
    /\ nmsgs' = nmsgs + 1
    /\ UNCHANGED <<fs, persisted>>

Open ==
    /\ Apply(Msg("Open"))
    /\ UNCHANGED <<fs, persisted>>

New ==
    /\ Apply(Msg("New"))
    /\ UNCHANGED <<fs, persisted>>

Save ==
    /\ Apply(Msg("Save"))
    /\ UNCHANGED <<fs, persisted>>

NewTheme(t) ==
    /\ Apply(MsgNewTheme(t))
    /\ UNCHANGED <<fs, persisted>>

\* -------------------------------------------------------- the async tasks
Finish(i, res) == [tasks EXCEPT ![i].pc = "finished", ![i].result = res]

\* (variant: a cancelled picker falls back to reading the default file)
pick_file_always_reads(i, answer) ==
    /\ tasks[i].fut = "pick_file" /\ tasks[i].pc = "dialog"
    /\ tasks' = [tasks EXCEPT ![i].pc = "read",
                              ![i].target = IF answer = None THEN DefaultFile ELSE answer]
    /\ UNCHANGED <<editor, fs, history>>
\* pick_file: AsyncFileDialog::pick_file().await.ok_or(DialogClosed)?
pick_file(i, answer) ==
    /\ tasks[i].fut = "pick_file" /\ tasks[i].pc = "dialog"
    /\ tasks' = IF answer = None
                  THEN Finish(i, Err(DialogClosed))
                  ELSE [tasks EXCEPT ![i].pc = "read", ![i].target = answer]
    /\ UNCHANGED <<editor, fs, history>>

\* load_file: read_to_string(&path) opens the file
load_file(i, fail) ==
    /\ tasks[i].pc = "read"
    /\ LET p == tasks[i].target IN
       tasks' = IF ~fs[p].exists
                  THEN [Finish(i, Err(IOFailed("NotFound"))) EXCEPT ![i].io = TRUE]
                ELSE IF fail
                  THEN [Finish(i, Err(IOFailed("PermissionDenied"))) EXCEPT ![i].io = TRUE]
                ELSE [tasks EXCEPT ![i].pc = "reading", ![i].io = TRUE]
    /\ UNCHANGED <<editor, fs, history>>

\* load_file: read_to_string(&path) then reads what the file holds at the
\* reader's own offset, up to k bytes at a time, until a read finds nothing
\* more, and load_file returns Ok((path, contents)) of what it has read; other
\* tasks run in between
load_file_read(i, k, fail) ==
    /\ tasks[i].pc = "reading"
    /\ LET p == tasks[i].target
           off == tasks[i].off
           cur == fs[p].text
       IN
       IF fail
         THEN /\ k = 1
              /\ tasks' = Finish(i, Err(IOFailed("PermissionDenied")))
         ELSE IF off >= Len(cur)
           THEN /\ k = 1
                /\ tasks' = Finish(i, Ok(p, tasks[i].buf))
           ELSE /\ k <= Len(cur) - off
                /\ tasks' = [tasks EXCEPT
                               ![i].buf = @ \o SubSeq(cur, off + 1, off + k),
                               ![i].off = off + k]
    /\ UNCHANGED <<editor, fs, history>>

\* (variant: a cancelled save-as dialog ends the task without a result)
save_file_cancel_hangs(i, answer) ==
    /\ tasks[i].fut = "save_file" /\ tasks[i].pc = "dialog"
    /\ tasks' = IF answer = None
                  THEN [tasks EXCEPT ![i].pc = "closed"]
                  ELSE [tasks EXCEPT ![i].pc = "write", ![i].target = answer]
    /\ UNCHANGED <<editor, fs, history>>
\* save_file: AsyncFileDialog::save_file().await.ok_or(DialogClosed)
save_file_dialog(i, answer) ==
    /\ tasks[i].fut = "save_file" /\ tasks[i].pc = "dialog"
    /\ tasks' = IF answer = None
                  THEN Finish(i, Err(DialogClosed))
                  ELSE [tasks EXCEPT ![i].pc = "write", ![i].target = answer]
    /\ UNCHANGED <<editor, fs, history>>

\* save_file: fs::write(&path, text) opens the file, creating or truncating it;
\* there is nothing more to do for an empty text
save_file_write(i, fail) ==
    /\ tasks[i].pc = "write"
    /\ LET p == tasks[i].target IN
       IF fail
         THEN /\ tasks' = [Finish(i, Err(IOFailed("PermissionDenied")))
                             EXCEPT ![i].io = TRUE]
              /\ fs' = fs
         ELSE /\ tasks' = IF tasks[i].text = <<>>
                            THEN [Finish(i, Ok(p, <<>>)) EXCEPT ![i].io = TRUE]
                            ELSE [tasks EXCEPT ![i].pc = "writing", ![i].io = TRUE]
              /\ fs' = [fs EXCEPT ![p] = File(<<>>)]
    /\ UNCHANGED <<editor, history>>

\* (variant: the write takes the text of the buffer at the time of the write)
write_all_from_buffer(i, k, fail) ==
    /\ tasks[i].pc = "writing"
    /\ k \in 1..(Len(tasks[i].text) - tasks[i].off)
    /\ LET p == tasks[i].target
           off == tasks[i].off
           buffer == ContentText(content)
           chunk == [j \in 1..k |-> IF off + j <= Len(buffer)
                                      THEN buffer[off + j] ELSE Nul]
       IN
       IF fail
         THEN /\ tasks' = Finish(i, Err(IOFailed("PermissionDenied")))
              /\ fs' = fs
         ELSE /\ tasks' = IF off + k = Len(tasks[i].text)
                            THEN [Finish(i, Ok(p, <<>>)) EXCEPT ![i].off = off + k]
                            ELSE [tasks EXCEPT ![i].off = off + k]
              /\ fs' = [fs EXCEPT ![p] = File(WriteAt(fs[p].text, off, chunk))]
    /\ UNCHANGED <<editor, history>>
\* save_file: fs::write(&path, text) then writes the text, k more bytes of it
\* at a time at its own offset, and save_file returns Ok(path) after the last;
\* other tasks run in between
save_file_write_all(i, k, fail) ==
    /\ tasks[i].pc = "writing"
    /\ k \in 1..(Len(tasks[i].text) - tasks[i].off)
    /\ LET p == tasks[i].target
           off == tasks[i].off
           chunk == SubSeq(tasks[i].text, off + 1, off + k)
       IN
       IF fail
         THEN /\ tasks' = Finish(i, Err(IOFailed("PermissionDenied")))
              /\ fs' = fs
         ELSE /\ tasks' = IF off + k = Len(tasks[i].text)
                            THEN [Finish(i, Ok(p, <<>>)) EXCEPT ![i].off = off + k]
                            ELSE [tasks EXCEPT ![i].off = off + k]
              /\ fs' = [fs EXCEPT ![p] = File(WriteAt(fs[p].text, off, chunk))]
    /\ UNCHANGED <<editor, history>>

\* (variant: the result of a finished task is handed over again)
DeliverAgain(i) ==
    /\ tasks[i].pc = "finished" /\ tasks[i].delivered < 2
    /\ LET r == update(Self, MsgResult(tasks[i].wrap, tasks[i].result)) IN
         /\ content' = r.self.content
         /\ error' = r.self.error
         /\ path' = r.self.path
         /\ saved' = r.self.saved
         /\ theme' = r.self.theme
    /\ tasks' = [tasks EXCEPT ![i].delivered = @ + 1]
    /\ persisted' = IF tasks[i].result.tag # "Ok" THEN persisted
                    ELSE IF tasks[i].wrap = "FileOpened" THEN tasks[i].result.text
                    ELSE tasks[i].text
    /\ last' = tasks[i].wrap \o tasks[i].result.tag
    /\ UNCHANGED <<fs, nmsgs>>
\* the runtime hands the result of a finished task to update, once
Deliver(i) ==
    /\ tasks[i].pc = "finished" /\ tasks[i].delivered = 0
    /\ LET r == update(Self, MsgResult(tasks[i].wrap, tasks[i].result)) IN
         /\ content' = r.self.content
         /\ error' = r.self.error
         /\ path' = r.self.path
         /\ saved' = r.self.saved
         /\ theme' = r.self.theme
         /\ tasks' = IF r.command = NoCommand
                       THEN [tasks EXCEPT ![i] = Retired]
                       ELSE Append([tasks EXCEPT ![i] = Retired], Spawn(r.command))
    /\ persisted' = IF tasks[i].result.tag # "Ok" THEN persisted
                    ELSE IF tasks[i].wrap = "FileOpened" THEN tasks[i].result.text
                    ELSE tasks[i].text
    /\ last' = tasks[i].wrap \o tasks[i].result.tag
    /\ UNCHANGED <<fs, nmsgs>>

Next ==
    \/ \E action \in Actions : Edit(action)
    \/ Open
    \/ New
    \/ Save
    \/ \E t \in Themes : NewTheme(t)
    \/ \E i \in DOMAIN tasks, answer \in Paths \cup {None} : pick_file(i, answer)
    \/ \E i \in DOMAIN tasks, fail \in BOOLEAN : load_file(i, fail)
    \/ \E i \in DOMAIN tasks, k \in 1..MaxText, fail \in BOOLEAN :
         load_file_read(i, k, fail)
    \/ \E i \in DOMAIN tasks, answer \in Paths \cup {None} : save_file_dialog(i, answer)
    \/ \E i \in DOMAIN tasks, fail \in BOOLEAN : save_file_write(i, fail)
    \/ \E i \in DOMAIN tasks, k \in 1..MaxText, fail \in BOOLEAN :
         save_file_write_all(i, k, fail)
    \/ \E i \in DOMAIN tasks : Deliver(i)

Spec == Init /\ [][Next]_vars

TypeOK ==
    /\ content.cursor \in 0..Len(content.text)
    /\ Len(content.text) <= MaxText
    /\ error \in Errors \cup {NoError}
    /\ path \in Paths \cup {None}
    /\ saved \in BOOLEAN
    /\ theme \in Themes
    /\ Len(tasks) <= 1 + MaxMsgs
    /\ nmsgs \in 0..MaxMsgs


\* the tasks make progress and their results are applied: the executor polls
\* every future, the dialogs and the filesystem answer, the runtime hands over
TaskStep(i) ==
    \/ \E answer \in Paths \cup {None} : pick_file(i, answer)
    \/ \E fail \in BOOLEAN : load_file(i, fail)
    \/ \E k \in 1..MaxText, fail \in BOOLEAN : load_file_read(i, k, fail)
    \/ \E answer \in Paths \cup {None} : save_file_dialog(i, answer)
    \/ \E fail \in BOOLEAN : save_file_write(i, fail)
    \/ \E k \in 1..MaxText, fail \in BOOLEAN : save_file_write_all(i, k, fail)
    \/ Deliver(i)

FairSpec == Spec /\ WF_vars(\E i \in DOMAIN tasks : TaskStep(i))

\* The end-to-end scenario: update applied from the state {path: None, text: "",
\* saved: true, error: None} with no command in flight, the paste of "abc"
\* among the edit actions.
ScenarioInit ==
    /\ path = None
    /\ content = ContentNew
    /\ error = NoError
    /\ saved = TRUE
    /\ theme = SolarizedDark
    /\ tasks = <<>>
    /\ fs \in [Paths -> UNION {StartFiles[p] : p \in Paths}]
    /\ \A p \in Paths : fs[p] \in StartFiles[p]
    /\ persisted = <<>>
    /\ last = "new"
    /\ nmsgs = 0

ScenarioNext ==
    \/ Edit(PasteAbc)
    \/ Next

ScenarioSpec == ScenarioInit /\ [][ScenarioNext]_vars

\* ------------------------------------------------------------------ claims
IsOpenedOk(i) == tasks[i].wrap = "FileOpened" /\ tasks[i].result.tag = "Ok"
IsSavedOk(i) == tasks[i].wrap = "FileSaved" /\ tasks[i].result.tag = "Ok"
IsErr(i) == tasks[i].result.tag = "Err"

\* C1 (as claimed): in every reachable state saved is true exactly when the
\* buffer's text equals the text last loaded (FileOpened(Ok)) or last written
\* by a save whose FileSaved(Ok) was applied.
C1_SavedIffPersisted == saved <=> (ContentText(content) = persisted)

\* C2 (as claimed): saved goes from false back to true only when the result of
\* a successful load, or of a successful save requested after the last
\* content-changing Edit, is applied; a FileSaved(Ok) of a save requested
\* before a later content-changing Edit does not set saved.
C2_StaleSaveLeavesUnsaved ==
    [][(~saved /\ saved') =>
         \E i \in DOMAIN tasks :
            /\ Deliver(i)
            /\ IsOpenedOk(i) \/ (IsSavedOk(i) /\ ~tasks[i].edited)]_vars

\* C3 (as claimed): applying FileOpened(Ok(p, t)) in any reachable state yields
\* path = Some(p), text t, saved = true and error = None.
C3_OpenOkClearsError ==
    [][\A i \in DOMAIN tasks :
         (Deliver(i) /\ IsOpenedOk(i)) =>
            /\ path' = tasks[i].result.path
            /\ ContentText(content') = tasks[i].result.text
            /\ saved' = TRUE
            /\ error' = NoError]_vars

\* C3 (amended): applying FileOpened(Ok(p, t)) in any reachable state yields
\* path = Some(p), text t and saved = true, and leaves error as it was.
C3_OpenOkKeepsError ==
    [][\A i \in DOMAIN tasks :
         (Deliver(i) /\ IsOpenedOk(i)) =>
            /\ path' = tasks[i].result.path
            /\ path' \in Paths
            /\ ContentText(content') = tasks[i].result.text
            /\ saved' = TRUE
            /\ error' = error]_vars

\* a successful open was applied while an error was set
C3_Witness ==
    /\ last = "FileOpenedOk"
    /\ error # NoError
    /\ path \in Paths
    /\ saved

\* C4: every command produces exactly one result message: a task is in flight
\* at an await or finished with an Ok or an Err, its result goes to FileOpened
\* for pick_file and load_file and to FileSaved for save_file, and it is
\* applied once.
C4_ExactlyOneResult ==
    \A i \in DOMAIN tasks :
       LET t == tasks[i] IN
       /\ t.delivered \in {0, 1}
       /\ (t.pc = "delivered") <=> (t.delivered = 1)
       /\ t.pc # "delivered" =>
            /\ t.pc \in {"dialog", "read", "reading", "write", "writing", "finished"}
            /\ (t.pc = "finished") <=> (t.result.tag \in {"Ok", "Err"})
            /\ t.result.tag = "Err" => t.result.err \in Errors
            /\ t.fut \in {"pick_file", "load_file"} => t.wrap = "FileOpened"
            /\ t.fut = "save_file" => t.wrap = "FileSaved"

\* the startup load, an open and a save have all had their result applied,
\* the last one a failure
C4_Witness ==
    /\ Len(tasks) = 3
    /\ \A i \in DOMAIN tasks : tasks[i].delivered = 1
    /\ last \in {"FileOpenedErr", "FileSavedErr"}

\* C5: under fair scheduling, at any moment every command scheduled so far
\* eventually has had its result applied, and no step drops or alters a
\* command in flight: a command leaves only by having its result applied.
C5_EveryResultApplied ==
    /\ []<>(\A i \in DOMAIN tasks : tasks[i].pc = "delivered")
    /\ [][\A i \in DOMAIN tasks :
            /\ i \in DOMAIN tasks'
            /\ tasks[i].pc # "delivered" =>
                 /\ tasks'[i].pc = "delivered" => Deliver(i)
                 /\ tasks'[i].pc # "delivered" =>
                      /\ tasks'[i].fut = tasks[i].fut
                      /\ tasks'[i].wrap = tasks[i].wrap
                      /\ tasks'[i].arg = tasks[i].arg
                      /\ tasks'[i].text = tasks[i].text]_vars

\* a user message scheduled a second command, another user message was applied,
\* and both commands have had their result applied, the last one a success
C5_Witness ==
    /\ Len(tasks) = 2
    /\ nmsgs = 2
    /\ \A i \in DOMAIN tasks : tasks[i].pc = "delivered"
    /\ last \in {"FileOpenedOk", "FileSavedOk"}

\* C6: a save scheduled with path = None asks the save-as dialog first and
\* writes only to the path the dialog returned; a cancelled dialog ends in
\* Err(DialogClosed) with no write; a save scheduled with path = Some(p) opens
\* no dialog and writes to p.
C6_SaveTasks ==
    \A i \in InFlight :
       LET t == tasks[i] IN
       t.fut = "save_file" =>
          /\ t.arg = None =>
               /\ t.asked
               /\ t.pc = "dialog" => (t.target = None /\ ~t.io)
               /\ t.pc \in {"write", "writing"} => t.target \in Paths
               /\ t.io => t.target \in Paths
               /\ t.result = Err(DialogClosed) => ~t.io
          /\ t.arg \in Paths =>
               /\ ~t.asked
               /\ t.pc # "dialog"
               /\ t.target = t.arg
               /\ t.result # Err(DialogClosed)

C6_SaveRequiresDialog ==
    /\ []C6_SaveTasks
    /\ [][/\ Save =>
               LET t == tasks'[Len(tasks')] IN
               /\ Len(tasks') = Len(tasks) + 1
               /\ t.fut = "save_file"
               /\ t.arg = path
               /\ t.pc = IF path = None THEN "dialog" ELSE "write"
               /\ fs' = fs
          /\ \A i \in DOMAIN tasks :
               /\ save_file_dialog(i, None) =>
                    (tasks'[i].result = Err(DialogClosed) /\ fs' = fs)
               /\ \A p \in Paths :
                    save_file_dialog(i, p) => (tasks'[i].pc = "write" /\ fs' = fs)
               /\ \A fail \in BOOLEAN :
                    save_file_write(i, fail) =>
                       \A p \in Paths : fs'[p] # fs[p] => p = tasks[i].target
               /\ \A k \in 1..MaxText, fail \in BOOLEAN :
                    save_file_write_all(i, k, fail) =>
                       \A p \in Paths : fs'[p] # fs[p] => p = tasks[i].target]_vars

\* a save scheduled without a path had its dialog cancelled and its failure applied
C6_Witness ==
    /\ last = "FileSavedErr"
    /\ error = DialogClosed
    /\ path = None

\* C7: pick_file ends in Err(DialogClosed) without a read when the picker is
\* cancelled; otherwise it reads the chosen path, piece by piece what the file
\* holds at the reader's offset, and ends in Ok(chosen path, text read) or
\* Err(IOFailed(kind)); load_file opens no dialog and never ends in
\* DialogClosed.
C7_OpenTasks ==
    \A i \in InFlight :
       LET t == tasks[i] IN
       /\ t.fut = "pick_file" =>
            /\ t.asked
            /\ t.result = Err(DialogClosed) <=> (t.pc = "finished" /\ ~t.io)
            /\ t.pc = "dialog" => ~t.io
       /\ t.fut = "load_file" =>
            /\ ~t.asked
            /\ t.pc \in {"read", "reading", "finished"}
            /\ t.target = t.arg
            /\ t.result # Err(DialogClosed)

C7_PickAndLoad ==
    /\ []C7_OpenTasks
    /\ [][\A i \in DOMAIN tasks :
            /\ pick_file(i, None) => tasks'[i].result = Err(DialogClosed)
            /\ \A p \in Paths :
                 pick_file(i, p) => (tasks'[i].pc = "read" /\ tasks'[i].target = p)
            /\ \A fail \in BOOLEAN :
                 load_file(i, fail) =>
                    \/ /\ fs[tasks[i].target].exists
                       /\ tasks'[i].pc = "reading"
                       /\ tasks'[i].buf = <<>>
                    \/ \E e \in ErrorKinds : tasks'[i].result = Err(IOFailed(e))
            /\ \A k \in 1..MaxText, fail \in BOOLEAN :
                 load_file_read(i, k, fail) =>
                    LET p == tasks[i].target
                        off == tasks[i].off
                        cur == fs[p].text
                    IN \/ \E e \in ErrorKinds : tasks'[i].result = Err(IOFailed(e))
                       \/ /\ off >= Len(cur)
                          /\ tasks'[i].result = Ok(p, tasks[i].buf)
                          /\ Len(tasks[i].buf) = off
                       \/ /\ tasks'[i].pc = "reading"
                          /\ tasks'[i].target = p
                          /\ tasks'[i].buf = tasks[i].buf \o SubSeq(cur, off + 1, off + k)]_vars

\* the picker was cancelled and the DialogClosed failure was applied
C7_Witness ==
    /\ last = "FileOpenedErr"
    /\ error = DialogClosed

\* C8: applying FileOpened(Err(e)) or FileSaved(Err(e)) leaves path, document,
\* saved and theme as they were, sets error = Some(e) and schedules no command.
C8_FailureOnlySetsError ==
    [][\A i \in DOMAIN tasks :
         (Deliver(i) /\ IsErr(i)) =>
            /\ path' = path
            /\ content' = content
            /\ saved' = saved
            /\ theme' = theme
            /\ error' = tasks[i].result.err
            /\ error' \in Errors
            /\ Len(tasks') = Len(tasks)]_vars

\* a failed write was applied to an edited buffer that has a path
C8_Witness ==
    /\ last = "FileSavedErr"
    /\ error = IOFailed("PermissionDenied")
    /\ path \in Paths
    /\ ~saved

\* C9: path is None initially, and it becomes Some(p) only by applying
\* FileOpened(Ok((p, _))) or FileSaved(Ok(p)).
C9_PathOnlyFromOk ==
    /\ path = None
    /\ [][(path' # path /\ path' # None) =>
            \E i \in DOMAIN tasks :
               /\ Deliver(i)
               /\ tasks[i].result.tag = "Ok"
               /\ tasks[i].result.path = path']_vars

\* the path was set by a save-as
C9_Witness ==
    /\ last = "FileSavedOk"
    /\ path = "/tmp/x.txt"

\* C10: applying any Edit, content-changing or not, yields error = None.
C10_EditClearsError ==
    [][(\E action \in Actions : Edit(action)) => error' = NoError]_vars

\* the startup load failed, its error was set, and a cursor move cleared it
C10_Witness ==
    /\ nmsgs = 1
    /\ last = "Move"
    /\ tasks = <<Retired>>
    /\ path = None
    /\ error = NoError

\* C11: error changes only in two ways: a failure result sets it to Some(e),
\* replacing what was there, and an Edit sets it to None; Open, Save, New,
\* NewTheme, FileOpened(Ok) and FileSaved(Ok) leave it as it was.
C11_ErrorFrame ==
    [][/\ (Open \/ Save \/ New \/ \E t \in Themes : NewTheme(t)) => error' = error
       /\ \A i \in DOMAIN tasks :
            /\ (Deliver(i) /\ tasks[i].result.tag = "Ok") => error' = error
            /\ (Deliver(i) /\ IsErr(i)) => error' = tasks[i].result.err
       /\ (\E action \in Actions : Edit(action)) => error' = NoError
       /\ error' # error =>
            \/ \E action \in Actions : Edit(action)
            \/ \E i \in DOMAIN tasks : Deliver(i) /\ IsErr(i)]_vars

\* an error recorded earlier is still there after New was applied
C11_Witness ==
    /\ last = "New"
    /\ error \in Errors

\* C12: a content-changing Edit (is_edit) applied with saved = true yields
\* saved = false; an Edit that is not content-changing leaves saved as it was.
C12_EditMarksUnsaved ==
    [][\A action \in Actions :
         Edit(action) =>
            IF is_edit(action) THEN saved' = FALSE ELSE saved' = saved]_vars

\* the first user message was a content-changing Edit, applied to the saved
\* buffer; the buffer is now unsaved
C12_Witness ==
    /\ nmsgs = 1
    /\ last = "Edit"
    /\ ~saved

\* C13: applying New yields path = None, an empty document and saved = false,
\* whatever the state was, and schedules no command.
C13_NewResets ==
    [][New =>
         /\ path' = None
         /\ ContentText(content') = <<>>
         /\ saved' = FALSE
         /\ tasks' = tasks]_vars

\* the startup load had set the path and the text, then New was applied
C13_Witness ==
    /\ nmsgs = 1
    /\ last = "New"
    /\ tasks = <<Retired>>
    /\ error = NoError
    /\ path = None
    /\ ContentText(content) = <<>>
    /\ ~saved

\* the editor is as the scenario has it after the edit: "abc", unsaved, no
\* path, no error, and Save was the second and last message applied
AfterEditAndSave ==
    /\ nmsgs = 2
    /\ last = "Save"
    /\ Len(tasks) = 1
    /\ path = None
    /\ ContentText(content) = Abc
    /\ ~saved
    /\ error = NoError

\* C14: from {path: None, text: "", saved: true, error: None}, Edit(paste
\* "abc") gives text "abc" and saved = false; Save then schedules a save of
\* "abc" without a path; the dialog returning /tmp/x.txt and the write
\* succeeding (the file opened empty, then "abc" written piece by piece) put
\* exactly "abc" into /tmp/x.txt; and FileSaved(Ok(/tmp/x.txt))
\* ends in path = Some(/tmp/x.txt), saved = true, error = None, text "abc".
C14_EndToEnd ==
    [][/\ (nmsgs = 0 /\ tasks = <<>> /\ path = None /\ ContentText(content) = <<>>
           /\ saved /\ error = NoError /\ Edit(PasteAbc)) =>
            /\ ContentText(content') = Abc
            /\ saved' = FALSE
            /\ path' = None
            /\ error' = NoError
            /\ tasks' = <<>>
       /\ (nmsgs = 1 /\ last = "Edit" /\ tasks = <<>> /\ path = None
           /\ ContentText(content) = Abc /\ ~saved /\ error = NoError /\ Save) =>
            /\ AfterEditAndSave'
            /\ tasks'[1].fut = "save_file"
            /\ tasks'[1].arg = None
            /\ tasks'[1].text = Abc
            /\ tasks'[1].pc = "dialog"
            /\ fs' = fs
       /\ (AfterEditAndSave /\ save_file_dialog(1, "/tmp/x.txt")) =>
            /\ tasks'[1].pc = "write"
            /\ tasks'[1].target = "/tmp/x.txt"
            /\ fs' = fs
       /\ (AfterEditAndSave /\ tasks[1].target = "/tmp/x.txt"
           /\ save_file_write(1, FALSE)) =>
            /\ fs'["/tmp/x.txt"] = File(<<>>)
            /\ fs'[DefaultFile] = fs[DefaultFile]
            /\ tasks'[1].pc = "writing"
       /\ \A k \in 1..Len(Abc) :
            (AfterEditAndSave /\ tasks[1].target = "/tmp/x.txt"
             /\ save_file_write_all(1, k, FALSE)) =>
               /\ fs'["/tmp/x.txt"] = File(SubSeq(Abc, 1, tasks[1].off + k))
               /\ fs'[DefaultFile] = fs[DefaultFile]
               /\ IF tasks[1].off + k = Len(Abc)
                    THEN tasks'[1].result = Ok("/tmp/x.txt", <<>>)
                    ELSE tasks'[1].pc = "writing"
       /\ (AfterEditAndSave /\ tasks[1].result = Ok("/tmp/x.txt", <<>>)) =>
            fs["/tmp/x.txt"] = File(Abc)
       /\ (AfterEditAndSave /\ tasks[1].result = Ok("/tmp/x.txt", <<>>)
           /\ Deliver(1)) =>
            /\ path' = "/tmp/x.txt"
            /\ saved' = TRUE
            /\ error' = NoError
            /\ ContentText(content') = Abc
            /\ fs'["/tmp/x.txt"] = File(Abc)]_vars

\* the scenario has run to its end: "abc" is in /tmp/x.txt and in the buffer,
\* which is saved under that path
C14_Witness ==
    /\ nmsgs = 2
    /\ last = "FileSavedOk"
    /\ tasks = <<Retired>>
    /\ path = "/tmp/x.txt"
    /\ saved
    /\ error = NoError
    /\ ContentText(content) = Abc
    /\ fs["/tmp/x.txt"] = File(Abc)

\* C15: NewTheme(t) applied twice in a row yields the same five fields as
\* applied once, for every theme t, and schedules no command either time: in
\* every state update gives that result, and a NewTheme(t) that follows a
\* NewTheme(t) changes nothing of the editor and schedules nothing.
C15_NewThemeIdempotent ==
    [][/\ \A t \in Themes :
            LET once == update(Self, MsgNewTheme(t))
                twice == update(once.self, MsgNewTheme(t))
            IN /\ twice.self = once.self
               /\ once.command = NoCommand
               /\ twice.command = NoCommand
       /\ \A t \in Themes :
            NewTheme(t) =>
              /\ theme' = t
              /\ UNCHANGED <<content, error, path, saved, tasks>>
              /\ (last = "NewTheme" /\ theme = t) => UNCHANGED editor]_vars

\* NewTheme(InspiredGitHub) was the second message applied, and only the theme
\* differs from the state after construction
C15_Witness ==
    /\ nmsgs = 2
    /\ last = "NewTheme"
    /\ theme = "InspiredGitHub"
    /\ ContentText(content) = InitText
    /\ saved
    /\ path = None
    /\ Len(tasks) = 1

\* C16: nothing fences an in-flight command against newer state: scheduling a
\* command leaves the commands in flight as they are, FileOpened(Ok((p2, t2)))
\* sets path = Some(p2) and the document to t2 while a save is in flight, and
\* the FileSaved(Ok(p1)) of a Save applied with path = Some(p1) sets
\* path = Some(p1) and saved = true whatever path and document are by then,
\* leaving the document as it is.
C16_NoFencing ==
    [][/\ (Open \/ Save) =>
            /\ Len(tasks') = Len(tasks) + 1
            /\ SubSeq(tasks', 1, Len(tasks)) = tasks
            /\ tasks'[Len(tasks')].pc # "delivered"
            /\ Cardinality(InFlight') = Cardinality(InFlight) + 1
       /\ \A i \in DOMAIN tasks :
            /\ (Deliver(i) /\ IsOpenedOk(i)) =>
                 /\ path' = tasks[i].result.path
                 /\ ContentText(content') = tasks[i].result.text
                 /\ \A j \in DOMAIN tasks \ {i} : tasks'[j] = tasks[j]
            /\ (Deliver(i) /\ IsSavedOk(i) /\ tasks[i].arg # None) =>
                 /\ path' = tasks[i].arg
                 /\ saved' = TRUE
                 /\ content' = content]_vars

\* Save and Open were the two messages applied and both commands are done: the
\* open's result put the empty text of /tmp/x.txt into the document, and the
\* save's result, applied last, put the path back to main.rs with saved = true,
\* though main.rs holds another text
C16_Witness ==
    /\ nmsgs = 2
    /\ tasks = <<Retired, Retired, Retired>>
    /\ last = "FileSavedOk"
    /\ path = DefaultFile
    /\ saved
    /\ ContentText(content) = <<>>
    /\ fs["/tmp/x.txt"] = File(<<>>)
    /\ fs[DefaultFile] = File(InitText)

\* C17: the save scheduled by Save carries the path and the full text of the
\* moment Save was applied; no step changes them while the save is in flight;
\* the write opens that path, or the dialog's choice when that path was None,
\* and every piece it writes there is the piece of that text at its offset,
\* up to the whole text; and FileSaved(Ok(p)) carries the path written.
C17_SaveSnapshot ==
    [][/\ Save =>
            LET t == tasks'[Len(tasks')] IN
            /\ t.fut = "save_file"
            /\ t.arg = path
            /\ t.text = ContentText(content)
       /\ \A i \in DOMAIN tasks :
            /\ (tasks[i].fut = "save_file" /\ tasks'[i] # Retired) =>
                 /\ tasks'[i].arg = tasks[i].arg
                 /\ tasks'[i].text = tasks[i].text
            /\ \A answer \in Paths :
                 save_file_dialog(i, answer) =>
                   /\ tasks[i].arg = None
                   /\ tasks'[i].target = answer
            /\ (tasks[i].fut = "save_file" /\ tasks[i].pc \in {"write", "writing"}) =>
                 /\ tasks[i].arg # None => tasks[i].target = tasks[i].arg
                 /\ tasks'[i] # Retired => tasks'[i].target = tasks[i].target
            /\ save_file_write(i, FALSE) =>
                 /\ fs' = [fs EXCEPT ![tasks[i].target] = File(<<>>)]
                 /\ tasks'[i].pc = "finished" =>
                      (tasks[i].text = <<>> /\ tasks'[i].result = Ok(tasks[i].target, <<>>))
            /\ \A k \in 1..MaxText :
                 save_file_write_all(i, k, FALSE) =>
                   LET p == tasks[i].target
                       off == tasks[i].off
                       text == tasks[i].text
                   IN /\ SubSeq(fs'[p].text, off + 1, off + k) = SubSeq(text, off + 1, off + k)
                      /\ \A q \in Paths \ {p} : fs'[q] = fs[q]
                      /\ fs[p].text = SubSeq(text, 1, off) =>
                           fs'[p].text = SubSeq(text, 1, off + k)
                      /\ tasks'[i].pc = "finished" =>
                           /\ off + k = Len(text)
                           /\ tasks'[i].result = Ok(p, <<>>)
            /\ (Deliver(i) /\ IsSavedOk(i)) =>
                 /\ tasks[i].result.path = tasks[i].target
                 /\ path' = tasks[i].target]_vars

\* a save has written the text of its Save to the file although the buffer was
\* edited while the save was in flight and holds another text by now
C17_Witness ==
    \E i \in DOMAIN tasks :
      /\ tasks[i].fut = "save_file"
      /\ tasks[i].pc = "finished"
      /\ tasks[i].edited
      /\ tasks[i].result.tag = "Ok"
      /\ fs[tasks[i].result.path] = File(tasks[i].text)
      /\ tasks[i].text # ContentText(content)

\* C18 (as claimed): at startup exactly one load of the default file by path is
\* scheduled and no dialog is opened; if that load fails, applying its
\* FileOpened(Err(e)) gives path = None, an empty document text and
\* error = Some(e), which the status line shows.
C18_StartupFallsBackToEmpty ==
    [][(nmsgs = 0 /\ last = "new") =>
         /\ Len(tasks) = 1
         /\ tasks[1].fut = "load_file"
         /\ tasks[1].arg = default_file
         /\ ~tasks[1].asked
         /\ (Deliver(1) /\ IsErr(1)) =>
              /\ path' = None
              /\ ContentText(content') = <<>>
              /\ error' = tasks[1].result.err
              /\ status(Self)'[1] = KindToString(error'.kind)]_vars

\* the description of an error, as the status line is claimed to show it
Description(e) ==
    IF e.tag = "IOFailed" THEN KindToString(e.kind) ELSE "dialog closed"

\* C19 (as claimed): whenever error is Some(e), of either kind, the status line
\* shows the description of e in place of the path text, from the message that
\* set it through every message but an Edit; when error is None (after an Edit)
\* it shows the path, or "New File"; and in all states the status text ends
\* with " *" exactly when saved is false.
C19_StatusShowsError ==
    /\ error # NoError => status(Self)[1] = Description(error)
    /\ error = NoError => status(Self)[1] = (IF path # None THEN path ELSE "New File")
    /\ (status(Self)[Len(status(Self))] = " *") <=> ~saved

\* C20: Open and Save leave document, path, saved, error and theme unchanged
\* and schedule exactly one command each, a pick_file for Open and a save_file
\* for Save, next to the commands already there; every other message (Edit,
\* New, NewTheme, FileOpened, FileSaved, Ok or Err) schedules no command, so
\* no failure is followed by a retry.
C20_OneCommandOrNone ==
    [][/\ Open =>
            /\ UNCHANGED editor
            /\ Len(tasks') = Len(tasks) + 1
            /\ SubSeq(tasks', 1, Len(tasks)) = tasks
            /\ tasks'[Len(tasks')].fut = "pick_file"
       /\ Save =>
            /\ UNCHANGED editor
            /\ Len(tasks') = Len(tasks) + 1
            /\ SubSeq(tasks', 1, Len(tasks)) = tasks
            /\ tasks'[Len(tasks')].fut = "save_file"
       /\ (New \/ (\E action \in Actions : Edit(action))
               \/ (\E t \in Themes : NewTheme(t))) =>
            /\ Len(tasks') = Len(tasks)
            /\ InFlight' = InFlight
       /\ \A i \in DOMAIN tasks :
            Deliver(i) =>
              /\ Len(tasks') = Len(tasks)
              /\ InFlight' = InFlight \ {i}]_vars

\* Open was the one message applied, its dialog was closed, and the failure was
\* applied: the error is set and no command is in flight
C20_Witness ==
    /\ nmsgs = 1
    /\ last = "FileOpenedErr"
    /\ error = DialogClosed
    /\ tasks = <<Retired, Retired>>

====
